---- MODULE Spec2Model ----
(***************************************************************************)
(* Model of neilh44/financial_analysis.                                    *)
(*                                                                         *)
(* src/app.py: class FinancialAnalyzer, an object with accumulator fields  *)
(* and the methods extract_revenue, calculate_ebit, calculate_ebitda,      *)
(* extract_net_income, validate_data and analyze_financials, each taking a *)
(* Python dict `data`.                                                     *)
(* src/financial_analyzer.py: the LLM based FinancialAnalyzer, its         *)
(* validation methods, analyze_with_llm and analyze_document.              *)
(* src/document_processor.py: DocumentProcessor.process_and_analyze with   *)
(* _analyze_with_groq and _enhance_analysis; src/flask_app.py: the body of *)
(* the /analyze response.                                                  *)
(*                                                                         *)
(* A Python dict is a function whose DOMAIN is the set of keys present.    *)
(* What a call delivers is a tagged record: a returned number, a returned  *)
(* None, a returned dict, or a raised exception.                           *)
(***************************************************************************)
EXTENDS Integers, FiniteSets, Sequences, TLC

\* the object under test, the method last called, its argument, its outcome
VARIABLES self, op, data, result

\* FinancialAnalyzer.analyze_document of src/financial_analyzer.py in progress:
\* where it stands, the retry counter of analyze_with_llm, and how many LLM
\* requests it has made and how many seconds it has slept
VARIABLES pc, retry_count, requests, sleeps

run == <<pc, retry_count, requests, sleeps>>

\* the locals of a _convert_to_markdown call
VARIABLES lines, line_no, markdown_lines, current_table, in_table

conversion == <<lines, line_no, markdown_lines, current_table, in_table>>

\* the temp folder of the web application, its /analyze requests, the clock
VARIABLES temp_folder, handler, now

uploads == <<temp_folder, handler, now>>

vars == <<self, op, data, result, pc, retry_count, requests, sleeps, lines, line_no, markdown_lines, current_table, in_table, temp_folder, handler, now>>

----------------------------------------------------------------------------
(* Bounds of the explored inputs *)

\* at most this many numeric fields are present in a generated dict
MaxFields == 4

\* generated numeric field values range over 0..MaxAmount
MaxAmount == 1

Amounts == 0..MaxAmount

----------------------------------------------------------------------------
(* Python dict and call-outcome helpers *)

EmptyDict == [k \in {} |-> 0]

Has(d, k) == k \in DOMAIN d

Get(d, k, default) == IF Has(d, k) THEN d[k] ELSE default

ReturnNumber(n) == [kind |-> "number", value |-> n]

ReturnNone == [kind |-> "none"]

ReturnDict(d) == [kind |-> "dict", value |-> d]

ReturnBool(b) == [kind |-> "bool", value |-> b]

Raise(e) == [kind |-> "raise", exc |-> e]

Raised(r) == r.kind = "raise"

----------------------------------------------------------------------------
(* FinancialAnalyzer.__init__ *)

FreshAnalyzer ==
    [revenue |-> 0, ebit |-> 0, ebitda |-> 0, net_income |-> 0,
     depreciation_amortization |-> 0, employees |-> 0,
     accuracy_metrics |-> EmptyDict]

----------------------------------------------------------------------------
(* FinancialAnalyzer.extract_revenue *)

revenue_items == <<"revenue", "sales", "turnover">>

RECURSIVE FirstPresent(_, _, _)
\* the `for item in revenue_items: if item in data: return data[item]` loop;
\* falls out of the loop (and of the if/elif chain) to `return 0`
FirstPresent(d, items, i) ==
    IF i > Len(items) THEN 0
    ELSE IF Has(d, items[i]) THEN d[items[i]]
    ELSE FirstPresent(d, items, i + 1)

RECURSIVE SumPresent(_, _, _)
SumPresent(d, items, i) ==
    IF i > Len(items) THEN 0
    ELSE Get(d, items[i], 0) + SumPresent(d, items, i + 1)

\* extract_revenue with the 'general' candidates added up instead of the
\* first one present being returned
extract_revenue_summing(d) ==
    LET ct == Get(d, "company_type", "None") IN
    IF ct = "general" THEN
        ReturnNumber(SumPresent(d, revenue_items, 1))
    ELSE IF ct = "bank_nbfc" THEN
        ReturnNumber(Get(d, "net_interest_income", 0)
                     + Get(d, "fee_commission_income", 0)
                     + Get(d, "trading_income", 0))
    ELSE IF ct = "insurance" THEN
        ReturnNumber(Get(d, "net_earned_premium", 0)
                     + Get(d, "reinsurance_recoveries", 0)
                     + Get(d, "reinsurance_commission", 0))
    ELSE ReturnNumber(0)

\* extract_revenue with a reported 'revenue' field counted into the bank and
\* insurance sums
extract_revenue_adding_reported(d) ==
    LET ct == Get(d, "company_type", "None") IN
    IF ct = "general" THEN
        ReturnNumber(FirstPresent(d, revenue_items, 1))
    ELSE IF ct = "bank_nbfc" THEN
        ReturnNumber(Get(d, "revenue", 0)
                     + Get(d, "net_interest_income", 0)
                     + Get(d, "fee_commission_income", 0)
                     + Get(d, "trading_income", 0))
    ELSE IF ct = "insurance" THEN
        ReturnNumber(Get(d, "revenue", 0)
                     + Get(d, "net_earned_premium", 0)
                     + Get(d, "reinsurance_recoveries", 0)
                     + Get(d, "reinsurance_commission", 0))
    ELSE ReturnNumber(0)

extract_revenue(d) ==
    LET ct == Get(d, "company_type", "None") IN
    IF ct = "general" THEN
        ReturnNumber(FirstPresent(d, revenue_items, 1))
    ELSE IF ct = "bank_nbfc" THEN
        ReturnNumber(Get(d, "net_interest_income", 0)
                     + Get(d, "fee_commission_income", 0)
                     + Get(d, "trading_income", 0))
    ELSE IF ct = "insurance" THEN
        ReturnNumber(Get(d, "net_earned_premium", 0)
                     + Get(d, "reinsurance_recoveries", 0)
                     + Get(d, "reinsurance_commission", 0))
    ELSE ReturnNumber(0)

----------------------------------------------------------------------------
(* FinancialAnalyzer.calculate_ebit *)

\* data[k] for a subscript expression: KeyError when k is absent
MissingKey(d, ks) == \E k \in ks : ~Has(d, k)

calculate_ebit(d) ==
    IF Has(d, "operating_profit") THEN
        ReturnNumber(d["operating_profit"])
    ELSE IF Has(d, "pbt") /\ Has(d, "interest") THEN
        IF MissingKey(d, {"interest_expense", "interest_income"})
        THEN Raise("KeyError")
        ELSE ReturnNumber(d["pbt"] + d["interest_expense"] - d["interest_income"])
    ELSE IF Has(d, "pat") /\ Has(d, "tax") THEN
        IF MissingKey(d, {"interest_expense", "interest_income"})
        THEN Raise("KeyError")
        ELSE ReturnNumber(d["pat"] + d["tax"]
                          + d["interest_expense"] - d["interest_income"])
    ELSE ReturnNumber(0)

----------------------------------------------------------------------------
(* FinancialAnalyzer.calculate_ebitda: returns the outcome and the analyzer *)
(* as the call leaves it                                                    *)

\* ebitda_da with the impairment taken out of D&A whether or not
\* has_impairment_detail says it can be isolated
ebitda_da_ignoring_flag(s, d) ==
    IF Has(d, "depreciation") \/ Has(d, "amortization") THEN
        LET da == Get(d, "depreciation", 0) + Get(d, "amortization", 0) IN
        IF Has(d, "impairment") THEN da - d["impairment"] ELSE da
    ELSE s.depreciation_amortization

\* the value self.depreciation_amortization holds when the method returns
ebitda_da(s, d) ==
    IF Has(d, "depreciation") \/ Has(d, "amortization") THEN
        LET da == Get(d, "depreciation", 0) + Get(d, "amortization", 0) IN
        IF Has(d, "impairment") /\ Get(d, "has_impairment_detail", FALSE)
        THEN da - d["impairment"]
        ELSE da
    ELSE s.depreciation_amortization

calculate_ebitda(s, d) ==
    LET e == calculate_ebit(d) IN
    IF Raised(e) THEN [out |-> e, obj |-> s]
    ELSE LET s2 == [s EXCEPT !.depreciation_amortization = ebitda_da(s, d)] IN
         [out |-> ReturnNumber(e.value + s2.depreciation_amortization),
          obj |-> s2]

----------------------------------------------------------------------------
(* FinancialAnalyzer.extract_net_income *)

\* extract_net_income with the equity-statement rule tried before the
\* pat + minority_interest rule
extract_net_income_equity_first(d) ==
    IF Has(d, "profit_before_minority") THEN
        ReturnNumber(d["profit_before_minority"])
    ELSE IF Has(d, "profit_equity_statement") THEN
        ReturnNumber(d["profit_equity_statement"])
    ELSE IF Has(d, "pat") /\ Has(d, "minority_interest") THEN
        ReturnNumber(d["pat"] + d["minority_interest"])
    ELSE ReturnNumber(Get(d, "net_income", 0))

extract_net_income(d) ==
    IF Has(d, "profit_before_minority") THEN
        ReturnNumber(d["profit_before_minority"])
    ELSE IF Has(d, "pat") /\ Has(d, "minority_interest") THEN
        ReturnNumber(d["pat"] + d["minority_interest"])
    ELSE IF Has(d, "profit_equity_statement") THEN
        ReturnNumber(d["profit_equity_statement"])
    ELSE ReturnNumber(Get(d, "net_income", 0))

----------------------------------------------------------------------------
(* FinancialAnalyzer.validate_data *)

\* bool(data.get(k)) for a string-valued and for an integer-valued field
StrTruthy(d, k) == Has(d, k) /\ d[k] # ""

IntTruthy(d, k) == Has(d, k) /\ d[k] # 0

\* the dict literal is evaluated entry by entry: the second entry reads
\* self.valid_currencies, an attribute __init__ never sets
validate_data(s, d) ==
    IF "valid_currencies" \notin DOMAIN s THEN Raise("AttributeError")
    ELSE ReturnDict(
        [currency_populated |-> StrTruthy(d, "currency"),
         currency_valid |-> Has(d, "currency") /\ d["currency"] \in s.valid_currencies,
         period_date_populated |-> IntTruthy(d, "period_date"),
         period_date_valid |-> 1990 <= Get(d, "period_date", 0)
                               /\ Get(d, "period_date", 0) <= 2024,
         series_id_populated |-> StrTruthy(d, "series_id"),
         unit_populated |-> StrTruthy(d, "unit")])

----------------------------------------------------------------------------
(* FinancialAnalyzer.analyze_financials *)

validation_names ==
    {"currency_populated", "currency_valid", "period_date_populated",
     "period_date_valid", "series_id_populated", "unit_populated"}

\* (passed_validations / total_validations) * 100, kept as an exact fraction
accuracy_of(validations) ==
    [num |-> 100 * Cardinality({n \in DOMAIN validations : validations[n]}),
     den |-> Cardinality(DOMAIN validations)]

analyze_financials(s, d) ==
    LET s1 == [s EXCEPT !.revenue = extract_revenue(d).value]
        e  == calculate_ebit(d)
    IN
    IF Raised(e) THEN [out |-> e, obj |-> s1]
    ELSE
    LET s2 == [s1 EXCEPT !.ebit = e.value]
        c  == calculate_ebitda(s2, d)
    IN
    IF Raised(c.out) THEN [out |-> c.out, obj |-> c.obj]
    ELSE
    LET s3 == [c.obj EXCEPT !.ebitda = c.out.value]
        s4 == [s3 EXCEPT !.net_income = extract_net_income(d).value]
        s5 == [s4 EXCEPT !.employees = Get(d, "employees", 0)]
        v  == validate_data(s5, d)
    IN
    IF Raised(v) THEN [out |-> v, obj |-> s5]
    ELSE [out |-> ReturnDict(
                    [revenue |-> s5.revenue, ebit |-> s5.ebit,
                     ebitda |-> s5.ebitda, net_income |-> s5.net_income,
                     employees |-> s5.employees,
                     depreciation_amortization |-> s5.depreciation_amortization,
                     validations |-> v.value,
                     accuracy |-> accuracy_of(v.value)]),
          obj |-> s5]

----------------------------------------------------------------------------
(* The dicts the methods are called with *)

\* the usage example of the module's __main__ block
sample_data ==
    [company_type |-> "general", revenue |-> 1000000, sales |-> 1000000,
     operating_profit |-> 150000, depreciation |-> 50000,
     amortization |-> 20000, pat |-> 80000, minority_interest |-> -5000,
     currency |-> "USD", period_date |-> 2023, series_id |-> "ABC123",
     unit |-> "thousands", employees |-> 500]

CompanyTypes == {"general", "bank_nbfc", "insurance", "unknown"}

RevenueFields ==
    {"revenue", "sales", "turnover",
     "net_interest_income", "fee_commission_income", "trading_income",
     "net_earned_premium", "reinsurance_recoveries", "reinsurance_commission"}

EbitFields ==
    {"operating_profit", "pbt", "interest", "interest_expense",
     "interest_income", "pat", "tax"}

DaFields == {"operating_profit", "depreciation", "amortization", "impairment"}

NetIncomeFields ==
    {"profit_before_minority", "pat", "minority_interest",
     "profit_equity_statement", "net_income"}

CallFields == {"operating_profit", "depreciation", "amortization"}

\* every dict holding at most MaxFields of the fields, each with an amount
NumDicts(fields) ==
    UNION {[S -> Amounts] :
             S \in {T \in SUBSET fields : Cardinality(T) <= MaxFields}}

\* company_type missing, or one of the four variants
CompanyTypeDicts ==
    {EmptyDict} \cup {[company_type |-> t] : t \in CompanyTypes}

\* has_impairment_detail missing, false or true
ImpairmentFlagDicts ==
    {EmptyDict} \cup {[has_impairment_detail |-> b] : b \in BOOLEAN}

RevenueInputs == {n @@ c : n \in NumDicts(RevenueFields), c \in CompanyTypeDicts}

EbitInputs == NumDicts(EbitFields)

DaInputs == {n @@ f : n \in NumDicts(DaFields), f \in ImpairmentFlagDicts}

NetIncomeInputs == NumDicts(NetIncomeFields)

\* D&A fields beside the fields of the pat + tax rule of calculate_ebit
PatDaFields == {"pat", "tax", "depreciation", "amortization"}

PatDaInputs == NumDicts(PatDaFields)

\* the spec's net-income example, alone and beside the later rules' fields
ExampleInputs ==
    {sample_data,
     [pat |-> 80000, minority_interest |-> -5000],
     [pat |-> 80000, minority_interest |-> -5000,
      profit_equity_statement |-> 70000, net_income |-> 60000]}

\* inputs of a single call on a new analyzer
FnInputs ==
    RevenueInputs \cup EbitInputs \cup DaInputs \cup NetIncomeInputs
        \cup PatDaInputs \cup ExampleInputs

\* inputs of the calls made one after another on the same analyzer
CallInputs == NumDicts(CallFields) \cup ExampleInputs

----------------------------------------------------------------------------
(* The methods as actions on one FinancialAnalyzer object *)

ExtractRevenue(d) ==
    /\ op' = "extract_revenue"
    /\ data' = d
    /\ result' = extract_revenue(d)
    /\ UNCHANGED <<self, run, conversion, uploads>>

CalculateEbit(d) ==
    /\ op' = "calculate_ebit"
    /\ data' = d
    /\ result' = calculate_ebit(d)
    /\ UNCHANGED <<self, run, conversion, uploads>>

CalculateEbitda(d) ==
    LET c == calculate_ebitda(self, d) IN
    /\ op' = "calculate_ebitda"
    /\ data' = d
    /\ result' = c.out
    /\ self' = c.obj
    /\ UNCHANGED <<run, conversion, uploads>>

ExtractNetIncome(d) ==
    /\ op' = "extract_net_income"
    /\ data' = d
    /\ result' = extract_net_income(d)
    /\ UNCHANGED <<self, run, conversion, uploads>>

ValidateData(d) ==
    /\ op' = "validate_data"
    /\ data' = d
    /\ result' = validate_data(self, d)
    /\ UNCHANGED <<self, run, conversion, uploads>>

AnalyzeFinancials(d) ==
    LET c == analyze_financials(self, d) IN
    /\ op' = "analyze_financials"
    /\ data' = d
    /\ result' = c.out
    /\ self' = c.obj
    /\ UNCHANGED <<run, conversion, uploads>>

Call(d) ==
    \/ ExtractRevenue(d)
    \/ CalculateEbit(d)
    \/ CalculateEbitda(d)
    \/ ExtractNetIncome(d)
    \/ ValidateData(d)
    \/ AnalyzeFinancials(d)

\* no analyze_document call is in progress
NoRun ==
    /\ pc = "idle"
    /\ retry_count = 0
    /\ requests = 0
    /\ sleeps = 0

\* the number of /analyze requests in flight
MaxRequests == 2

Requests == 1..MaxRequests

\* a request the server has not received yet
NoRequest == [pc |-> "idle", filename |-> "", temp_path |-> <<>>, saved |-> FALSE, text |-> 0, status |-> 0]

\* no _convert_to_markdown call is in progress
NoConversion ==
    /\ lines = <<>>
    /\ line_no = 0
    /\ markdown_lines = <<>>
    /\ current_table = <<>>
    /\ in_table = FALSE

\* the application has started (flask_app.py:44-50): no request yet
NoUpload ==
    /\ temp_folder = EmptyDict
    /\ handler = [r \in Requests |-> NoRequest]
    /\ now = 0

(* Any sequence of calls on one analyzer *)

Init ==
    /\ self = FreshAnalyzer
    /\ op = "__init__"
    /\ data = EmptyDict
    /\ result = ReturnNone
    /\ NoRun
    /\ NoConversion
    /\ NoUpload

Next == \E d \in CallInputs : Call(d)

Spec == Init /\ [][Next]_vars

(* One call on a newly constructed analyzer, over the wide input set *)

InitFn ==
    /\ self = FreshAnalyzer
    /\ op = "__init__"
    /\ data \in FnInputs
    /\ result = ReturnNone
    /\ NoRun
    /\ NoConversion
    /\ NoUpload

NextFn == op = "__init__" /\ Call(data)

SpecFn == InitFn /\ [][NextFn]_vars

----------------------------------------------------------------------------
(* Claims about src/app.py *)

HasDA(d) == Has(d, "depreciation") \/ Has(d, "amortization")

\* C1: every calculate_ebitda call whose input holds neither 'depreciation'
\* nor 'amortization' returns calculate_ebit of the same input (D&A = 0),
\* whatever was called earlier on the same analyzer.
C1_EbitdaIsEbitWithoutDA ==
    (op = "calculate_ebitda" /\ ~HasDA(data)) => result = calculate_ebit(data)

\* what method o returns for input d when it is the first call on a newly
\* constructed analyzer
FirstCallOutcome(o, d) ==
    CASE o = "extract_revenue" -> extract_revenue(d)
      [] o = "calculate_ebit" -> calculate_ebit(d)
      [] o = "calculate_ebitda" -> calculate_ebitda(FreshAnalyzer, d).out
      [] o = "extract_net_income" -> extract_net_income(d)

PureMethods ==
    {"extract_revenue", "calculate_ebit", "calculate_ebitda",
     "extract_net_income"}

\* C2: purity. The output of extract_revenue, calculate_ebit, calculate_ebitda
\* and extract_net_income depends on the input only, never on the analyzer's
\* history: a call made after any other calls on the object returns what the
\* same call returns as the first call on the object.
C2_OutputDependsOnInputOnly ==
    op \in PureMethods => result = FirstCallOutcome(op, data)

\* C3: validate_data returns a report with one boolean for each of the six
\* hard-stop checks and never raises; analyze_financials returns a result
\* for every input.
C3_ValidateDataReportsNeverRaises ==
    /\ op = "validate_data" =>
         /\ result.kind = "dict"
         /\ DOMAIN result.value = validation_names
         /\ \A n \in validation_names : result.value[n] \in BOOLEAN
    /\ op = "analyze_financials" => result.kind = "dict"

\* C4: extract_revenue, extract_net_income and calculate_ebit are total:
\* for every combination of present and absent raw fields each returns a
\* value and does not raise.
C4_ExtractorsAreTotal ==
    op \in {"extract_revenue", "extract_net_income", "calculate_ebit"} =>
        result.kind \in {"number", "none"}

\* absent term = 0
Term(d, k) == IF k \in DOMAIN d THEN d[k] ELSE 0

\* C5: with 'operating_profit' absent and 'pbt' present together with at
\* least one of 'interest_expense' / 'interest_income', calculate_ebit
\* returns pbt + interest_expense - interest_income (absent term = 0),
\* in preference to the pat + tax rule.
C5_EbitFromPbtAndInterest ==
    ( /\ op = "calculate_ebit"
      /\ "operating_profit" \notin DOMAIN data
      /\ "pbt" \in DOMAIN data
      /\ {"interest_expense", "interest_income"} \cap DOMAIN data # {} ) =>
        result = [kind |-> "number",
                  value |-> data["pbt"] + Term(data, "interest_expense")
                            - Term(data, "interest_income")]

\* no rule of the revenue cascade applies
RevenueUnresolved(d) ==
    \/ "company_type" \notin DOMAIN d
    \/ d["company_type"] = "unknown"
    \/ /\ d["company_type"] = "general"
       /\ {"revenue", "sales", "turnover"} \cap DOMAIN d = {}

\* C6: extract_revenue yields an explicit unresolved value, not the number 0,
\* when company_type is 'unknown', missing, or 'general' with none of
\* revenue / sales / turnover present.
C6_UnknownRevenueIsUnresolved ==
    (op = "extract_revenue" /\ RevenueUnresolved(data)) =>
        result.kind = "none"

\* no rule of the net-income cascade applies
NetIncomeUnresolved(d) ==
    /\ "profit_before_minority" \notin DOMAIN d
    /\ ~({"pat", "minority_interest"} \subseteq DOMAIN d)
    /\ "profit_equity_statement" \notin DOMAIN d
    /\ "net_income" \notin DOMAIN d

\* C7: extract_net_income yields unresolved, not 0, when none of
\* profit_before_minority, (pat and minority_interest together),
\* profit_equity_statement, net_income is present.
C7_MissingNetIncomeIsUnresolved ==
    (op = "extract_net_income" /\ NetIncomeUnresolved(data)) =>
        result.kind = "none"

\* C8: extract_net_income applies its rules in the order
\* profit_before_minority, pat + minority_interest (both present),
\* profit_equity_statement, net_income, and returns the value of the first
\* applicable rule only; pat = 80000 with minority_interest = -5000 and no
\* profit_before_minority gives 75000 whatever later rules' fields are present.
C8_NetIncomeFirstRuleWins ==
    op = "extract_net_income" =>
      LET has(k) == k \in DOMAIN data
          both == has("pat") /\ has("minority_interest")
      IN
      /\ has("profit_before_minority") =>
           result = [kind |-> "number", value |-> data["profit_before_minority"]]
      /\ (~has("profit_before_minority") /\ both) =>
           result = [kind |-> "number",
                     value |-> data["pat"] + data["minority_interest"]]
      /\ (~has("profit_before_minority") /\ ~both
            /\ has("profit_equity_statement")) =>
           result = [kind |-> "number",
                     value |-> data["profit_equity_statement"]]
      /\ (~has("profit_before_minority") /\ ~both
            /\ ~has("profit_equity_statement") /\ has("net_income")) =>
           result = [kind |-> "number", value |-> data["net_income"]]
      /\ (~has("profit_before_minority") /\ both
            /\ data["pat"] = 80000 /\ data["minority_interest"] = -5000) =>
           result = [kind |-> "number", value |-> 75000]

\* the spec's example beside the fields of both later rules
C8_Witness ==
    /\ op = "extract_net_income"
    /\ DOMAIN data = {"pat", "minority_interest", "profit_equity_statement",
                      "net_income"}
    /\ data["pat"] = 80000
    /\ data["minority_interest"] = -5000
    /\ data["profit_equity_statement"] # 75000
    /\ data["net_income"] # 75000
    /\ result = [kind |-> "number", value |-> 75000]

\* C9: for company_type 'general', extract_revenue returns the value of the
\* first field present in the order revenue, sales, turnover; with several
\* present the result is that first value alone, never a sum or an average.
C9_GeneralRevenueFirstMatch ==
    (op = "extract_revenue" /\ "company_type" \in DOMAIN data
       /\ data["company_type"] = "general") =>
      LET has(k) == k \in DOMAIN data IN
      /\ has("revenue") =>
           result = [kind |-> "number", value |-> data["revenue"]]
      /\ (~has("revenue") /\ has("sales")) =>
           result = [kind |-> "number", value |-> data["sales"]]
      /\ (~has("revenue") /\ ~has("sales") /\ has("turnover")) =>
           result = [kind |-> "number", value |-> data["turnover"]]

\* revenue absent, sales and turnover both present with values whose sum and
\* average differ from the first
C9_Witness ==
    /\ op = "extract_revenue"
    /\ "company_type" \in DOMAIN data
    /\ data["company_type"] = "general"
    /\ "revenue" \notin DOMAIN data
    /\ {"sales", "turnover"} \subseteq DOMAIN data
    /\ data["sales"] = 0
    /\ data["turnover"] = 1
    /\ result = [kind |-> "number", value |-> 0]

\* C10: for 'bank_nbfc' extract_revenue returns net_interest_income +
\* fee_commission_income + trading_income, for 'insurance' net_earned_premium
\* + reinsurance_recoveries + reinsurance_commission, an absent term counting
\* as 0; revenue, sales and turnover do not influence the result.
C10_BankInsuranceRevenueSums ==
    (op = "extract_revenue" /\ "company_type" \in DOMAIN data) =>
      /\ data["company_type"] = "bank_nbfc" =>
           result = [kind |-> "number",
                     value |-> Term(data, "net_interest_income")
                               + Term(data, "fee_commission_income")
                               + Term(data, "trading_income")]
      /\ data["company_type"] = "insurance" =>
           result = [kind |-> "number",
                     value |-> Term(data, "net_earned_premium")
                               + Term(data, "reinsurance_recoveries")
                               + Term(data, "reinsurance_commission")]

\* a bank with two of the three terms and a revenue field present
C10_Witness ==
    /\ op = "extract_revenue"
    /\ "company_type" \in DOMAIN data
    /\ data["company_type"] = "bank_nbfc"
    /\ DOMAIN data = {"company_type", "net_interest_income", "trading_income",
                      "revenue", "sales"}
    /\ data["net_interest_income"] = 1
    /\ data["trading_income"] = 1
    /\ data["revenue"] = 1
    /\ data["sales"] = 1
    /\ result = [kind |-> "number", value |-> 2]

\* C11: with depreciation or amortization present, calculate_ebitda returns
\* ebit + depreciation + amortization (absent term = 0), minus impairment if
\* and only if 'impairment' is present and has_impairment_detail is true;
\* ebit is what calculate_ebit delivers for the same input (an exception it
\* raises is the outcome of calculate_ebitda too). operating_profit = 150000,
\* depreciation = 50000, amortization = 20000 give 220000.
C11_EbitdaAddsBackDA ==
    (op = "calculate_ebitda" /\ HasDA(data)) =>
      LET isolated == /\ "impairment" \in DOMAIN data
                      /\ "has_impairment_detail" \in DOMAIN data
                      /\ data["has_impairment_detail"]
          da == Term(data, "depreciation") + Term(data, "amortization")
                - (IF isolated THEN data["impairment"] ELSE 0)
          ebit == calculate_ebit(data)
      IN
      /\ ebit.kind = "number" =>
           result = [kind |-> "number", value |-> ebit.value + da]
      /\ ebit.kind # "number" => result = ebit
      /\ ( /\ {"operating_profit", "depreciation", "amortization"}
                \subseteq DOMAIN data
           /\ data["operating_profit"] = 150000
           /\ data["depreciation"] = 50000
           /\ data["amortization"] = 20000
           /\ ~isolated ) =>
           /\ ebit = [kind |-> "number", value |-> 150000]
           /\ result = [kind |-> "number", value |-> 220000]

\* an impairment reported without the detail flag stays inside D&A
C11_Witness ==
    /\ op = "calculate_ebitda"
    /\ DOMAIN data = {"operating_profit", "depreciation", "impairment",
                      "has_impairment_detail"}
    /\ data["operating_profit"] = 1
    /\ data["depreciation"] = 1
    /\ data["impairment"] = 1
    /\ ~data["has_impairment_detail"]
    /\ result = [kind |-> "number", value |-> 2]

----------------------------------------------------------------------------
(***************************************************************************)
(* src/financial_analyzer.py: class FinancialAnalyzer (LLM based).         *)
(*                                                                         *)
(* The dicts handled here hold JSON values. A value is a tagged record:    *)
(* None, a number, the float NaN (json.loads accepts the literal NaN and   *)
(* normalize_number turns the string "nan" into it), or a string.          *)
(* Numbers are integers; comparisons and arithmetic follow Python: every   *)
(* comparison with NaN is false, arithmetic with NaN gives NaN.            *)
(***************************************************************************)

None == [t |-> "none"]

Num(n) == [t |-> "num", n |-> n]

NaN == [t |-> "nan"]

Str(x) == [t |-> "str", s |-> x]

\* data.get(k)
get(d, k) == IF Has(d, k) THEN d[k] ELSE None

IsNumber(v) == v.t \in {"num", "nan"}

\* bool(v)
Truthy(v) ==
    CASE v.t = "none" -> FALSE
      [] v.t = "num" -> v.n # 0
      [] v.t = "nan" -> TRUE
      [] v.t = "str" -> v.s # ""

\* a > b and a < b on floats
Gt(a, b) == a.t = "num" /\ b.t = "num" /\ a.n > b.n

Lt(a, b) == Gt(b, a)

Add(a, b) == IF a.t = "num" /\ b.t = "num" THEN Num(a.n + b.n) ELSE NaN

AbsInt(n) == IF n < 0 THEN -n ELSE n

\* abs(calculated - reported) > abs(reported * 0.001)
ExceedsTolerance(calculated, reported) ==
    /\ calculated.t = "num"
    /\ reported.t = "num"
    /\ 1000 * AbsInt(calculated.n - reported.n) > AbsInt(reported.n)

\* the tolerance test with the boundary excluded
WithinTolerance_strict(calculated, reported) ==
    /\ calculated.t = "num"
    /\ reported.t = "num"
    /\ 1000 * AbsInt(calculated.n - reported.n) < AbsInt(reported.n)

\* abs(calculated - reported) <= abs(reported * 0.001)
WithinTolerance(calculated, reported) ==
    /\ calculated.t = "num"
    /\ reported.t = "num"
    /\ 1000 * AbsInt(calculated.n - reported.n) <= AbsInt(reported.n)

(* FinancialAnalyzer.__init__: the fields the modelled methods read *)

LlmAnalyzer ==
    [validation_rules |->
       [min_revenue |-> 0, min_confidence |-> 70,
        required_fields |-> <<"revenue", "ebit", "net_income">>,
        retry_attempts |-> 3, retry_delay |-> 1]]

\* _check_value_consistency reconciling as soon as ebit and ebitda are present,
\* an absent depreciation or amortization counted as 0
_check_value_consistency_absent_as_zero(d) ==
    LET revenue == get(d, "revenue")
        ebit == get(d, "ebit")
        net_income == get(d, "net_income")
        ebitda == get(d, "ebitda")
        depreciation == get(d, "depreciation")
        amortization == get(d, "amortization")
        present(v) == v # None
        zero_if_absent(v) == IF present(v) THEN v ELSE Num(0)
    IN
    IF present(revenue) /\ present(ebit) /\ Gt(ebit, revenue) THEN FALSE
    ELSE IF present(ebit) /\ present(net_income) /\ Gt(net_income, ebit)
    THEN FALSE
    ELSE IF present(ebitda) /\ present(ebit) /\ Lt(ebitda, ebit) THEN FALSE
    ELSE IF /\ present(ebit) /\ present(ebitda)
            /\ ExceedsTolerance(Add(Add(ebit, zero_if_absent(depreciation)),
                                    zero_if_absent(amortization)),
                                ebitda)
    THEN FALSE
    ELSE IF /\ present(revenue) /\ present(net_income)
            /\ \/ Gt(revenue, Num(0)) /\ Gt(net_income, revenue)
               \/ Lt(revenue, Num(0)) /\ Gt(net_income, Num(0))
    THEN FALSE
    ELSE IF present(revenue) /\ present(depreciation)
            /\ Gt(depreciation, revenue)
    THEN FALSE
    ELSE IF present(revenue) /\ present(amortization)
            /\ Gt(amortization, revenue)
    THEN FALSE
    ELSE TRUE

(* FinancialAnalyzer._check_value_consistency *)

_check_value_consistency(d) ==
    LET revenue == get(d, "revenue")
        ebit == get(d, "ebit")
        net_income == get(d, "net_income")
        ebitda == get(d, "ebitda")
        depreciation == get(d, "depreciation")
        amortization == get(d, "amortization")
        present(v) == v # None
    IN
    IF present(revenue) /\ present(ebit) /\ Gt(ebit, revenue) THEN FALSE
    ELSE IF present(ebit) /\ present(net_income) /\ Gt(net_income, ebit)
    THEN FALSE
    ELSE IF present(ebitda) /\ present(ebit) /\ Lt(ebitda, ebit) THEN FALSE
    ELSE IF /\ \A v \in {ebit, depreciation, amortization, ebitda} : present(v)
            /\ ExceedsTolerance(Add(Add(ebit, depreciation), amortization),
                                ebitda)
    THEN FALSE
    ELSE IF /\ present(revenue) /\ present(net_income)
            /\ \/ Gt(revenue, Num(0)) /\ Gt(net_income, revenue)
               \/ Lt(revenue, Num(0)) /\ Gt(net_income, Num(0))
    THEN FALSE
    ELSE IF present(revenue) /\ present(depreciation)
            /\ Gt(depreciation, revenue)
    THEN FALSE
    ELSE IF present(revenue) /\ present(amortization)
            /\ Gt(amortization, revenue)
    THEN FALSE
    ELSE TRUE

(* FinancialAnalyzer._check_ebitda_consistency *)

_check_ebitda_consistency(d) ==
    LET ebit == get(d, "ebit")
        depreciation == get(d, "depreciation")
        amortization == get(d, "amortization")
        reported_ebitda == get(d, "ebitda")
    IN
    IF \A v \in {ebit, depreciation, amortization, reported_ebitda} : v # None
    THEN WithinTolerance(Add(Add(ebit, depreciation), amortization),
                         reported_ebitda)
    ELSE TRUE

(* FinancialAnalyzer.validate_financial_data *)

\* data.get('confidence_score', 0)
confidence_of(d) ==
    IF Has(d, "confidence_score") THEN d["confidence_score"] ELSE Num(0)

RECURSIVE AllPresent(_, _, _)
\* all(data.get(key) is not None for key in keys)
AllPresent(d, keys, i) ==
    IF i > Len(keys) THEN TRUE
    ELSE get(d, keys[i]) # None /\ AllPresent(d, keys, i + 1)

\* `confidence >= min_confidence` raises TypeError unless confidence is a number
validate_financial_data(s, d) ==
    LET rules == s.validation_rules
        revenue == get(d, "revenue")
        confidence == confidence_of(d)
    IN
    IF ~IsNumber(confidence) THEN Raise("TypeError")
    ELSE ReturnDict(
        [has_revenue |-> Truthy(revenue) /\ Gt(revenue, Num(rules.min_revenue)),
         has_required_metrics |-> AllPresent(d, rules.required_fields, 1),
         confidence_sufficient |->
             confidence.t = "num" /\ confidence.n >= rules.min_confidence,
         values_consistent |-> _check_value_consistency(d),
         ebitda_consistent |-> _check_ebitda_consistency(d)])

(* FinancialAnalyzer._calculate_accuracy *)

\* the weights, in percent
weights ==
    [has_revenue |-> 20, has_required_metrics |-> 30,
     values_consistent |-> 25, ebitda_consistent |-> 15, confidence |-> 10]

\* float(validations.get(key, False)) * weight, in hundredths of a percent
Weighted(validations, key) ==
    IF key \in DOMAIN validations /\ validations[key]
    THEN 100 * weights[key] ELSE 0

\* the score capped at 1.0 only
Clamp_without_floor(score) == IF score > 10000 THEN 10000 ELSE score

\* max(0.0, min(1.0, score)), with score in hundredths of a percent
Clamp(score) ==
    IF score > 10000 THEN 10000 ELSE IF score < 0 THEN 0 ELSE score

\* _calculate_accuracy with every validation counted, confidence_sufficient
\* at the weight of the confidence term
_calculate_accuracy_counting_sufficient(s, d) ==
    LET v == validate_financial_data(s, d)
        confidence == confidence_of(d)
    IN
    IF Raised(v) \/ ~IsNumber(confidence) THEN ReturnNumber(0)
    ELSE IF confidence = NaN THEN ReturnNumber(10000)
    ELSE ReturnNumber(
           Clamp(Weighted(v.value, "has_revenue")
                 + Weighted(v.value, "has_required_metrics")
                 + Weighted(v.value, "values_consistent")
                 + Weighted(v.value, "ebitda_consistent")
                 + (IF v.value.confidence_sufficient
                    THEN 100 * weights.confidence ELSE 0)
                 + weights.confidence * confidence.n))

\* The returned accuracy is a number of hundredths of a point (9900 = 99.0).
\* An exception inside the try block gives 0.0; a NaN score passes min() and
\* max() as 1.0.
_calculate_accuracy(s, d) ==
    LET v == validate_financial_data(s, d)
        confidence == confidence_of(d)
    IN
    IF Raised(v) \/ ~IsNumber(confidence) THEN ReturnNumber(0)
    ELSE IF confidence = NaN THEN ReturnNumber(10000)
    ELSE ReturnNumber(
           Clamp(Weighted(v.value, "has_revenue")
                 + Weighted(v.value, "has_required_metrics")
                 + Weighted(v.value, "values_consistent")
                 + Weighted(v.value, "ebitda_consistent")
                 + weights.confidence * confidence.n))

(* The dicts the validation methods are called with *)

MetricFields ==
    {"revenue", "ebit", "ebitda", "net_income", "depreciation", "amortization"}

\* what _parse_llm_response leaves in a metric field
MetricValues == {None, NaN} \cup {Num(n) : n \in (-1)..MaxAmount}

\* no number, below the range, inside it, above it
ConfidenceValues == {None, Num(-50), Num(90), Num(150)}

\* confidence_score missing, or holding one of the values
ConfidenceDicts ==
    {EmptyDict} \cup {[confidence_score |-> c] : c \in ConfidenceValues}

\* the response the analysis prompt shows as the expected format
prompt_example ==
    [revenue |-> Num(1000000), ebit |-> Num(-50000), ebitda |-> Num(-45000),
     net_income |-> Num(-55000), depreciation |-> Num(5000),
     amortization |-> None, employees |-> Num(100), currency |-> Str("EUR"),
     units |-> Str("actuals"), confidence_score |-> Num(90)]

\* ebit, depreciation, amortization and a reported ebitda as numbers
Reconciliation(ebit, depreciation, amortization, ebitda) ==
    [ebit |-> Num(ebit), depreciation |-> Num(depreciation),
     amortization |-> Num(amortization), ebitda |-> Num(ebitda)]

\* the spec's reconciliation examples, and reported values of 1000 and -1000
\* with the calculated one at, inside and outside the 0.1% tolerance
ExampleMetrics ==
    {prompt_example, [prompt_example EXCEPT !["confidence_score"] = NaN],
     Reconciliation(100, 10, 5, 115), Reconciliation(100, 10, 5, 120)}
    \cup {Reconciliation(e, 10, 5, 1000) : e \in 982..988}
    \cup {Reconciliation(e, 10, 5, -1000) : e \in (-1018)..(-1012)}

MetricInputs ==
    {m @@ c : m \in [MetricFields -> MetricValues], c \in ConfidenceDicts}
        \cup ExampleMetrics

(* The validation methods applied once to a dict *)

CheckValueConsistency ==
    /\ op' = "_check_value_consistency"
    /\ result' = ReturnBool(_check_value_consistency(data))
    /\ UNCHANGED <<self, data, run, conversion, uploads>>

CheckEbitdaConsistency ==
    /\ op' = "_check_ebitda_consistency"
    /\ result' = ReturnBool(_check_ebitda_consistency(data))
    /\ UNCHANGED <<self, data, run, conversion, uploads>>

ValidateFinancialData ==
    /\ op' = "validate_financial_data"
    /\ result' = validate_financial_data(self, data)
    /\ UNCHANGED <<self, data, run, conversion, uploads>>

CalculateAccuracy ==
    /\ op' = "_calculate_accuracy"
    /\ result' = _calculate_accuracy(self, data)
    /\ UNCHANGED <<self, data, run, conversion, uploads>>

InitMetrics ==
    /\ self = LlmAnalyzer
    /\ op = "__init__"
    /\ data \in MetricInputs
    /\ result = ReturnNone
    /\ NoRun
    /\ NoConversion
    /\ NoUpload

NextMetrics ==
    \/ op = "__init__" /\ CheckValueConsistency
    \/ op = "__init__" /\ CheckEbitdaConsistency
    \/ op = "__init__" /\ ValidateFinancialData
    \/ op = "__init__" /\ CalculateAccuracy

SpecMetrics == InitMetrics /\ [][NextMetrics]_vars

----------------------------------------------------------------------------
(***************************************************************************)
(* src/financial_analyzer.py: analyze_document and analyze_with_llm.       *)
(*                                                                         *)
(* pc is the position inside analyze_document: "idle" before the call,     *)
(* "while" at the loop test of analyze_with_llm, "sleep" before            *)
(* time.sleep, "returned" when analyze_with_llm has returned and "done"    *)
(* when analyze_document has. requests counts the calls of                 *)
(* _make_llm_request and sleeps the seconds spent in time.sleep. data      *)
(* holds doc_result and, once analyze_with_llm has returned, its result.   *)
(***************************************************************************)

(* FinancialMetrics, and _create_empty_result returning its __dict__ *)

FinancialMetrics ==
    [revenue |-> None, ebit |-> None, ebitda |-> None, net_income |-> None,
     employees |-> None, depreciation |-> None, amortization |-> None,
     currency |-> Str("EUR"), units |-> Str("actuals"),
     confidence_score |-> Num(0)]

_create_empty_result == FinancialMetrics

(* TextAnalyzer.normalize_number *)

\* float(value) of the cleaned text, for the texts the responses below use:
\* parentheses read as a minus sign, a K suffix as a factor 1000
number_of_text == ("1" :> Num(1)) @@ ("(1)" :> Num(-1)) @@ ("1K" :> Num(1000))

\* a text float() rejects gives None
normalize_number(value) ==
    CASE value.t = "none" -> None
      [] value.t \in {"num", "nan"} -> value
      [] value.t = "str" ->
           IF value.s \in DOMAIN number_of_text
           THEN number_of_text[value.s] ELSE None

(* FinancialAnalyzer._parse_llm_response *)

\* int(normalize_number(x)): TypeError and ValueError leave None
employees_of(x) ==
    IF normalize_number(x).t = "num" THEN normalize_number(x) ELSE None

_parse_llm_response(response) ==
    [k \in DOMAIN response \cup MetricFields |->
       IF k \in MetricFields THEN normalize_number(get(response, k))
       ELSE IF k = "employees" /\ response[k] # None
       THEN employees_of(response[k])
       ELSE response[k]]

(* FinancialAnalyzer._validate_llm_result *)

\* str.lower() on the unit names the responses below use
lower(x) == IF x = "Millions" THEN "millions" ELSE x

\* _validate_llm_result accepting every numeric confidence_score
_validate_llm_result_any_confidence(r) ==
    LET required_fields == {"revenue", "ebit", "net_income", "currency",
                            "units", "confidence_score"}
    IN
    IF ~(required_fields \subseteq DOMAIN r) THEN FALSE
    ELSE IF get(r, "currency").t # "str" THEN FALSE
    ELSE IF r["units"].t # "str" THEN FALSE
    ELSE IF lower(r["units"].s) \notin {"millions", "thousands", "actuals"}
    THEN FALSE
    ELSE IsNumber(get(r, "confidence_score"))

\* .lower() on a value that is no string raises AttributeError, which the
\* method turns into False
_validate_llm_result(r) ==
    LET required_fields == {"revenue", "ebit", "net_income", "currency",
                            "units", "confidence_score"}
        confidence == get(r, "confidence_score")
    IN
    IF ~(required_fields \subseteq DOMAIN r) THEN FALSE
    ELSE IF get(r, "currency").t # "str" THEN FALSE
    ELSE IF r["units"].t # "str" THEN FALSE
    ELSE IF lower(r["units"].s) \notin {"millions", "thousands", "actuals"}
    THEN FALSE
    ELSE IF ~IsNumber(confidence) THEN FALSE
    ELSE confidence.t = "num" /\ 0 <= confidence.n /\ confidence.n <= 100

(* FinancialAnalyzer.analyze_with_llm *)

\* while retry_count < retry_attempts
may_attempt(s, count) == count < s.validation_rules.retry_attempts

\* a delay after every failed attempt, the last one included
must_sleep_after_every_attempt(s, count) == TRUE

\* if retry_count < retry_attempts: time.sleep(retry_delay)
must_sleep(s, count) == count < s.validation_rules.retry_attempts

\* The try block of one iteration for one outcome of _make_llm_request: the
\* request raises, the text holds no JSON object (_clean_json_response
\* raises ValueError), or it holds the object `value`.
attempt(outcome) ==
    IF outcome.kind = "json"
          /\ _validate_llm_result(_parse_llm_response(outcome.value))
    THEN [validated |-> TRUE, result |-> _parse_llm_response(outcome.value)]
    ELSE [validated |-> FALSE]

(* FinancialAnalyzer.analyze_document *)

\* {'error': ..., 'success': False}
failure(error) == ReturnDict([error |-> Str(error), success |-> FALSE])

\* lines 61-68: the metadata added to the result of analyze_with_llm
with_metadata(s, results, language) ==
    LET with_language == [language |-> language] @@ results
        with_validations ==
            [validations |-> validate_financial_data(s, with_language).value]
                @@ with_language
    IN [accuracy |-> _calculate_accuracy(s, with_validations).value]
           @@ with_validations

(* What the collaborators of analyze_document deliver *)

\* process_document: DocumentProcessor has no such method (AttributeError);
\* a processor that has it returns a dict read at lines 50-58
DocResults ==
    {[kind |-> "raise", message |-> "no attribute 'process_document'"],
     [kind |-> "dict", value |-> EmptyDict],
     [kind |-> "dict", value |-> [success |-> FALSE]],
     [kind |-> "dict",
      value |-> [success |-> FALSE, error |-> Str("unreadable")]],
     [kind |-> "dict", value |-> [success |-> TRUE]],
     [kind |-> "dict", value |-> [success |-> TRUE, text |-> "text"]],
     [kind |-> "dict",
      value |-> [success |-> TRUE, text |-> "text", language |-> Str("en")]],
     [kind |-> "dict",
      value |-> [success |-> TRUE, text |-> "text", language |-> Str("fi")]]}

\* the key revenue of a response: missing, a number or a text
ResponseMetrics ==
    {EmptyDict} \cup {[revenue |-> v] : v \in {Num(1), Str("n/a"), Str("(1)")}}

ResponseCurrencies ==
    {EmptyDict} \cup
    {[currency |-> c] : c \in {None, Str("USD")}}

ResponseUnits ==
    {EmptyDict} \cup
    {[units |-> u] :
       u \in {None, Str("Millions"), Str("dozens")}}

ResponseConfidences ==
    {EmptyDict} \cup
    {[confidence_score |-> c] :
       c \in {None, NaN, Num(-50), Num(0), Num(90), Num(100), Num(150),
              Str("90")}}

\* the JSON objects the LLM answers with
ResponseDicts ==
    {m @@ c @@ u @@ k :
       m \in ResponseMetrics, c \in ResponseCurrencies,
       u \in ResponseUnits, k \in ResponseConfidences}
        \cup {prompt_example, [prompt_example EXCEPT !["employees"] = NaN]}

\* the outcomes of _make_llm_request
LlmOutcomes ==
    {[kind |-> "raise"], [kind |-> "text"]}
        \cup {[kind |-> "json", value |-> d] : d \in ResponseDicts}

(* The steps of analyze_document *)

\* lines 49-55
ProcessDocument(doc_result) ==
    /\ "validation_rules" \in DOMAIN self
    /\ op = "__init__"
    /\ pc = "idle"
    /\ op' = "analyze_document"
    /\ data' = [doc_result |-> doc_result, results |-> None]
    /\ IF doc_result.kind = "raise"
       THEN /\ result' = failure(doc_result.message)
            /\ pc' = "done"
       ELSE IF ~Has(doc_result.value, "success")
       THEN /\ result' = failure("'success'")
            /\ pc' = "done"
       ELSE IF ~doc_result.value["success"]
       THEN /\ result' =
                 IF Has(doc_result.value, "error")
                 THEN ReturnDict([error |-> doc_result.value["error"],
                                  success |-> FALSE])
                 ELSE failure("Document processing failed")
            /\ pc' = "done"
       ELSE IF ~Has(doc_result.value, "text")
       THEN /\ result' = failure("'text'")
            /\ pc' = "done"
       ELSE IF ~Has(doc_result.value, "language")
       THEN /\ result' = failure("'language'")
            /\ pc' = "done"
       ELSE /\ result' = result
            /\ pc' = "while"
    /\ UNCHANGED <<self, retry_count, requests, sleeps, conversion, uploads>>

\* lines 99-113: one iteration up to the increment of retry_count
Attempt(outcome) ==
    /\ pc = "while"
    /\ may_attempt(self, retry_count)
    /\ requests' = requests + 1
    /\ IF attempt(outcome).validated
       THEN /\ data' = [data EXCEPT !.results = attempt(outcome).result]
            /\ pc' = "returned"
            /\ UNCHANGED retry_count
       ELSE /\ retry_count' = retry_count + 1
            /\ pc' = IF must_sleep(self, retry_count + 1)
                     THEN "sleep" ELSE "while"
            /\ UNCHANGED data
    /\ UNCHANGED <<self, op, result, sleeps, conversion, uploads>>

\* line 115
Sleep ==
    /\ pc = "sleep"
    /\ sleeps' = sleeps + self.validation_rules.retry_delay
    /\ pc' = "while"
    /\ UNCHANGED <<self, op, data, result, retry_count, requests, conversion, uploads>>

\* line 117: the loop has ended without a validated result
Exhausted ==
    /\ pc = "while"
    /\ ~may_attempt(self, retry_count)
    /\ data' = [data EXCEPT !.results = _create_empty_result]
    /\ pc' = "returned"
    /\ UNCHANGED <<self, op, result, retry_count, requests, sleeps, conversion, uploads>>

\* lines 60-75
ReturnResults ==
    /\ pc = "returned"
    /\ LET language == data.doc_result.value["language"]
           results == [language |-> language] @@ data.results
       IN
       result' =
         IF Raised(validate_financial_data(self, results))
         THEN failure(validate_financial_data(self, results).exc)
         ELSE ReturnDict([success |-> TRUE,
                          data |-> with_metadata(self, data.results,
                                                 language)])
    /\ pc' = "done"
    /\ UNCHANGED <<self, op, data, retry_count, requests, sleeps, conversion, uploads>>

----------------------------------------------------------------------------
(***************************************************************************)
(* src/document_processor.py: DocumentProcessor.process_and_analyze.       *)
(*                                                                         *)
(* The values of the Groq response are the tagged values above; a dict is  *)
(* a function and a JSON null in the place of a dict is None. A quotient   *)
(* is kept exact as a "ratio" of two integers. An operation Python rejects *)
(* with TypeError gives TypeError below.                                   *)
(***************************************************************************)

DocProcessor == [groq_api_key |-> "key"]

TypeError == [t |-> "error", exc |-> "TypeError"]

\* a + b
Plus(a, b) ==
    CASE a.t = "error" -> a
      [] b.t = "error" -> b
      [] a.t = "str" /\ b.t = "str" -> Str(a.s \o b.s)
      [] IsNumber(a) /\ IsNumber(b) -> Add(a, b)
      [] OTHER -> TypeError

\* x or 0
OrZero(x) == IF Truthy(x) THEN x ELSE Num(0)

\* (a / b) * 100 for a truthy b
Percent(a, b) ==
    CASE a.t = "num" /\ b.t = "num" ->
           [t |-> "ratio", num |-> 100 * a.n, den |-> b.n]
      [] IsNumber(a) /\ IsNumber(b) -> NaN
      [] OTHER -> TypeError

(* AnalysisResult *)

AnalysisResult(metrics, calculated, analysis, info, success, error) ==
    [kind |-> "AnalysisResult",
     value |-> [metrics |-> metrics, calculated_metrics |-> calculated,
                analysis |-> analysis, currency_info |-> info,
                success |-> success, error |-> error]]

(* DocumentProcessor._enhance_analysis *)

\* metrics after the EBITDA step (lines 351-353)
enhanced_metrics(metrics) ==
    IF /\ Truthy(get(metrics, "ebit"))
       /\ Truthy(get(metrics, "depreciation"))
       /\ Truthy(get(metrics, "amortization"))
    THEN [ebitda |-> Plus(Plus(metrics["ebit"],
                               OrZero(metrics["depreciation"])),
                          OrZero(metrics["amortization"]))] @@ metrics
    ELSE metrics

\* calculated[margin] = (metrics[numerator] / metrics['revenue']) * 100
with_margin(calculated, metrics, margin, numerator) ==
    IF Truthy(get(metrics, numerator))
    THEN (margin :> Percent(metrics[numerator], metrics["revenue"]))
             @@ calculated
    ELSE calculated

\* calculated after the margin step (lines 355-362)
enhanced_calculated(calculated, metrics) ==
    IF Truthy(get(metrics, "revenue"))
    THEN with_margin(
           with_margin(
             with_margin(calculated, metrics, "net_profit_margin",
                         "net_income"),
             metrics, "ebitda_margin", "ebitda"),
           metrics, "operating_margin", "ebit")
    ELSE calculated

\* lines 368-372
currency_info_of(analysis) ==
    [code |-> IF Has(analysis, "currency") THEN analysis["currency"]
              ELSE Str("Unknown"),
     units |-> IF Has(analysis, "units") THEN analysis["units"]
               ELSE Str("actuals"),
     confidence |-> IF Has(analysis, "confidence_score")
                    THEN analysis["confidence_score"] ELSE Num(0)]

\* .get on a null, item assignment on a null and arithmetic on texts raise
_enhance_analysis(d) ==
    LET metrics == d["metrics"]
        calculated == d["calculated_metrics"]
        analysis == d["analysis"]
    IN
    IF metrics = None THEN Raise("AttributeError")
    ELSE IF get(enhanced_metrics(metrics), "ebitda").t = "error"
    THEN Raise("TypeError")
    ELSE IF /\ calculated = None
            /\ Truthy(get(metrics, "revenue"))
            /\ \E k \in {"net_income", "ebitda", "ebit"} :
                  Truthy(get(enhanced_metrics(metrics), k))
    THEN Raise("TypeError")
    ELSE IF /\ calculated # None
            /\ \E k \in DOMAIN enhanced_calculated(calculated,
                                                  enhanced_metrics(metrics)) :
                  enhanced_calculated(calculated,
                                      enhanced_metrics(metrics))[k].t = "error"
    THEN Raise("TypeError")
    ELSE IF analysis = None THEN Raise("AttributeError")
    ELSE ReturnDict(
           [metrics |-> enhanced_metrics(metrics),
            calculated_metrics |->
                IF calculated = None THEN None
                ELSE enhanced_calculated(calculated,
                                         enhanced_metrics(metrics)),
            analysis |-> analysis,
            currency_info |-> currency_info_of(analysis)])

(* DocumentProcessor._analyze_with_groq *)

\* every failure is turned into {'success': False, 'error': ...}
_analyze_with_groq(response) ==
    CASE response.kind = "raise" ->
           [success |-> FALSE, error |-> Str(response.message)]
      [] response.kind = "status" ->
           [success |-> FALSE,
            error |-> Str("Groq API error: " \o response.message)]
      [] response.kind = "no_choices" ->
           [success |-> FALSE, error |-> Str("No response from Groq")]
      [] response.kind = "no_content" ->
           [success |-> FALSE, error |-> Str("AttributeError")]
      [] response.kind = "text" ->
           [success |-> FALSE,
            error |-> Str("No valid JSON object found in response")]
      [] response.kind = "malformed" ->
           [success |-> FALSE,
            error |-> Str("Invalid JSON response from Groq: "
                          \o response.message)]
      [] response.kind = "json" ->
           IF {"metrics", "calculated_metrics", "analysis"}
                 \subseteq DOMAIN response.value
           THEN [success |-> TRUE, data |-> response.value]
           ELSE [success |-> FALSE,
                 error |-> Str("Invalid response structure: "
                               \o "missing required keys")]

(* DocumentProcessor.process_and_analyze *)

failed(error) ==
    AnalysisResult(EmptyDict, EmptyDict, EmptyDict, EmptyDict, FALSE, error)

\* the try block (lines 97-124) for what _pdf_to_text and the Groq API deliver
process_and_analyze_try(outcome) ==
    LET text == outcome.text
        analysis_result == _analyze_with_groq(outcome.groq)
        enhanced_result == _enhance_analysis(analysis_result.data)
    IN
    IF text.kind = "raise" THEN Raise(text.message)
    ELSE IF text.value = ""
    THEN Raise("Could not extract text from the document")
    ELSE IF ~analysis_result.success THEN failed(analysis_result.error)
    ELSE IF Raised(enhanced_result) THEN enhanced_result
    ELSE AnalysisResult(enhanced_result.value.metrics,
                        enhanced_result.value.calculated_metrics,
                        enhanced_result.value.analysis,
                        enhanced_result.value.currency_info, TRUE, None)

\* the try block without its except clause
process_and_analyze_uncaught(outcome) == process_and_analyze_try(outcome)

\* except Exception as e (lines 125-134)
process_and_analyze(outcome) ==
    IF Raised(process_and_analyze_try(outcome))
    THEN failed(Str(process_and_analyze_try(outcome).exc))
    ELSE process_and_analyze_try(outcome)

(* src/flask_app.py: the body of the /analyze response (lines 117-138) *)

formatted_response(r) ==
    [metrics |->
       [revenue |-> get(r.metrics, "revenue"),
        ebit |-> get(r.metrics, "ebit"),
        ebitda |-> get(r.metrics, "ebitda"),
        netIncome |-> get(r.metrics, "net_income"),
        depreciation |-> get(r.metrics, "depreciation"),
        amortization |-> get(r.metrics, "amortization"),
        employees |-> get(r.metrics, "employees")],
     calculated_metrics |->
       [ebitdaMargin |-> get(r.calculated_metrics, "ebitda_margin"),
        netProfitMargin |-> get(r.calculated_metrics, "net_profit_margin"),
        operatingMargin |-> get(r.calculated_metrics, "operating_margin")],
     metadata |->
       [currency |-> IF Has(r.currency_info, "code")
                     THEN r.currency_info["code"] ELSE Str("USD"),
        confidenceScore |-> IF Has(r.analysis, "confidence_score")
                            THEN r.analysis["confidence_score"] ELSE Num(0),
        units |-> IF Has(r.currency_info, "unit")
                  THEN r.currency_info["unit"] ELSE Str("actuals"),
        language |-> Str("unknown")]]

(* What the collaborators of process_and_analyze deliver *)

DocMetricFields ==
    {"revenue", "ebit", "ebitda", "net_income", "depreciation", "amortization"}

\* a metric of the response: null or a number
DocMetricValues == {None} \cup {Num(n) : n \in Amounts}

\* the format lines of the prompt echoed back as values
TemplateMetrics == [k \in DocMetricFields |-> Str("number or null")]

DocMetrics ==
    [DocMetricFields -> DocMetricValues]
        \cup {EmptyDict, TemplateMetrics,
              [TemplateMetrics EXCEPT !["revenue"] = None],
              [TemplateMetrics EXCEPT !["ebit"] = Num(1)],
              [revenue |-> Num(1), ebit |-> NaN]}

Margins == {"ebitda_margin", "net_profit_margin", "operating_margin"}

\* the margins the response supplies: none, nulls, or numbers
DocCalculated ==
    {EmptyDict, [k \in Margins |-> None], [k \in Margins |-> Num(50)]}

DocAnalyses ==
    {EmptyDict, [currency |-> None], [currency |-> Str("SEK")],
     [currency |-> Str("SEK"), units |-> Str("thousands"),
      confidence_score |-> Num(90)]}

\* the JSON objects the Groq API answers with: complete ones, ones with a
\* null in the place of a dict, and ones with a key missing
GroqData ==
    {[metrics |-> m, calculated_metrics |-> c, analysis |-> a] :
       m \in DocMetrics, c \in DocCalculated, a \in DocAnalyses}
    \cup {[metrics |-> None, calculated_metrics |-> EmptyDict,
           analysis |-> EmptyDict],
          [metrics |-> [revenue |-> Num(1), ebit |-> Num(1)],
           calculated_metrics |-> None, analysis |-> EmptyDict],
          [metrics |-> [ebit |-> Num(1)],
           calculated_metrics |-> None, analysis |-> EmptyDict],
          [metrics |-> EmptyDict, calculated_metrics |-> EmptyDict,
           analysis |-> None],
          [metrics |-> EmptyDict, analysis |-> EmptyDict],
          EmptyDict}

\* the messages of the exceptions raised; httpx timeouts have an empty one
Messages == {"", "connection refused"}

\* the outcomes of the request to the Groq API
GroqResponses ==
    {[kind |-> k, message |-> m] :
       k \in {"raise", "status", "malformed"}, m \in Messages}
    \cup {[kind |-> "no_choices"], [kind |-> "no_content"], [kind |-> "text"]}
    \cup {[kind |-> "json", value |-> d] : d \in GroqData}

\* _pdf_to_text raises or returns no text, in which case no request is made;
\* or it returns the text
DocOutcomes ==
    {[text |-> [kind |-> "raise", message |-> m],
      groq |-> [kind |-> "unused"]] : m \in Messages}
    \cup {[text |-> [kind |-> "text", value |-> ""],
           groq |-> [kind |-> "unused"]]}
    \cup {[text |-> [kind |-> "text", value |-> "text"], groq |-> g] :
            g \in GroqResponses}

(* process_and_analyze as one call *)

ProcessAndAnalyze(outcome) ==
    /\ "groq_api_key" \in DOMAIN self
    /\ op = "__init__"
    /\ op' = "process_and_analyze"
    /\ data' = outcome
    /\ result' = process_and_analyze(outcome)
    /\ UNCHANGED <<self, run, conversion, uploads>>

(* analyze_document called once *)

InitLlm ==
    /\ self = LlmAnalyzer
    /\ op = "__init__"
    /\ data = EmptyDict
    /\ result = ReturnNone
    /\ NoRun
    /\ NoConversion
    /\ NoUpload

NextLlm ==
    \/ op = "__init__" /\ \E doc_result \in DocResults :
                              ProcessDocument(doc_result)
    \/ pc = "while" /\ \E outcome \in LlmOutcomes : Attempt(outcome)
    \/ Sleep
    \/ Exhausted
    \/ ReturnResults

SpecLlm == InitLlm /\ [][NextLlm]_vars

\* a call that has started runs to its end
SpecLlmFair == SpecLlm /\ WF_vars(NextLlm)

(* The analysis pipeline: one call of either entry point *)

InitPipeline ==
    /\ self \in {LlmAnalyzer, DocProcessor}
    /\ op = "__init__"
    /\ data = EmptyDict
    /\ result = ReturnNone
    /\ NoRun
    /\ NoConversion
    /\ NoUpload

NextPipeline ==
    \/ op = "__init__" /\ \E outcome \in DocOutcomes :
                              ProcessAndAnalyze(outcome)
    \/ NextLlm

SpecPipeline == InitPipeline /\ [][NextPipeline]_vars

----------------------------------------------------------------------------
(* Claims about the validation methods of src/financial_analyzer.py *)

\* C12: _check_value_consistency returns false if and only if at least one
\* cross-check has all its operands present (not None) and is violated:
\* ebit > revenue; net_income > ebit; ebitda < ebit;
\* |ebit + depreciation + amortization - ebitda| > 0.001 * |ebitda|;
\* revenue > 0 and net_income > revenue; revenue < 0 and net_income > 0;
\* depreciation > revenue; amortization > revenue. A check with an absent
\* operand never causes failure.
C12_ValueConsistencyIffViolatedCheck ==
    op = "_check_value_consistency" =>
      LET v(k) == get(data, k)
          here(keys) == \A k \in keys : v(k) # None
          Violated ==
            \/ here({"revenue", "ebit"}) /\ Gt(v("ebit"), v("revenue"))
            \/ here({"ebit", "net_income"}) /\ Gt(v("net_income"), v("ebit"))
            \/ here({"ebitda", "ebit"}) /\ Lt(v("ebitda"), v("ebit"))
            \/ /\ here({"ebit", "depreciation", "amortization", "ebitda"})
               /\ \A k \in {"ebit", "depreciation", "amortization", "ebitda"} :
                     v(k).t = "num"
               /\ 1000 * AbsInt(v("ebit").n + v("depreciation").n
                                + v("amortization").n - v("ebitda").n)
                    > AbsInt(v("ebitda").n)
            \/ /\ here({"revenue", "net_income"})
               /\ Gt(v("revenue"), Num(0))
               /\ Gt(v("net_income"), v("revenue"))
            \/ /\ here({"revenue", "net_income"})
               /\ Lt(v("revenue"), Num(0))
               /\ Gt(v("net_income"), Num(0))
            \/ here({"revenue", "depreciation"})
                 /\ Gt(v("depreciation"), v("revenue"))
            \/ here({"revenue", "amortization"})
                 /\ Gt(v("amortization"), v("revenue"))
      IN result = ReturnBool(~Violated)

\* ebit and ebitda differ while depreciation and amortization are absent:
\* the reconciliation has an absent operand and the result is true
C12_Witness ==
    /\ op = "_check_value_consistency"
    /\ get(data, "ebit") = Num(0)
    /\ get(data, "ebitda") = Num(1)
    /\ get(data, "depreciation") = None
    /\ get(data, "amortization") = None
    /\ get(data, "revenue") = Num(1)
    /\ get(data, "net_income") = Num(-1)
    /\ result = ReturnBool(TRUE)

\* C13: _check_ebitda_consistency returns true if and only if at least one
\* of ebit, depreciation, amortization, ebitda is absent, or
\* |(ebit + depreciation + amortization) - ebitda| <= 0.001 * |ebitda|, the
\* boundary included; ebit = 100, depreciation = 10, amortization = 5 passes
\* with ebitda = 115 and fails with ebitda = 120.
C13_EbitdaConsistencyIffReconciles ==
    op = "_check_ebitda_consistency" =>
      LET operands == {"ebit", "depreciation", "amortization", "ebitda"}
          v(k) == get(data, k)
          absent == \E k \in operands : v(k) = None
          reconciles ==
            /\ \A k \in operands : v(k).t = "num"
            /\ 1000 * AbsInt(v("ebit").n + v("depreciation").n
                             + v("amortization").n - v("ebitda").n)
                 <= AbsInt(v("ebitda").n)
      IN
      /\ result = ReturnBool(absent \/ reconciles)
      /\ data = Reconciliation(100, 10, 5, 115) => result = ReturnBool(TRUE)
      /\ data = Reconciliation(100, 10, 5, 120) => result = ReturnBool(FALSE)

\* a calculated ebitda of 999 against a reported 1000: exactly 0.1% apart
C13_Witness ==
    /\ op = "_check_ebitda_consistency"
    /\ data = Reconciliation(984, 10, 5, 1000)
    /\ result = ReturnBool(TRUE)

\* C14: for a numeric confidence_score (0 when the key is missing)
\* _calculate_accuracy equals 100 * clamp(0.20 * has_revenue
\* + 0.30 * has_required_metrics + 0.25 * values_consistent
\* + 0.15 * ebitda_consistent + 0.10 * confidence_score / 100, 0, 1), each
\* boolean counted as 1 or 0; confidence_sufficient does not contribute; all
\* four checks true and confidence 90 give 99. Accuracies are in hundredths
\* of a point.
C14_AccuracyIsClampedWeightedSum ==
    (op = "_calculate_accuracy" /\ confidence_of(data).t = "num") =>
      LET validations == validate_financial_data(self, data).value
          bit(b) == IF b THEN 1 ELSE 0
          sum == 2000 * bit(validations.has_revenue)
                 + 3000 * bit(validations.has_required_metrics)
                 + 2500 * bit(validations.values_consistent)
                 + 1500 * bit(validations.ebitda_consistent)
                 + 10 * confidence_of(data).n
          clamped == IF sum < 0 THEN 0 ELSE IF sum > 10000 THEN 10000 ELSE sum
      IN
      /\ result = [kind |-> "number", value |-> clamped]
      /\ ( /\ validations.has_revenue
           /\ validations.has_required_metrics
           /\ validations.values_consistent
           /\ validations.ebitda_consistent
           /\ confidence_of(data) = Num(90) ) =>
           result = [kind |-> "number", value |-> 9900]

\* the response of the prompt: the four checks hold, confidence is 90 and
\* sufficient, and the accuracy is 99.0
C14_Witness ==
    /\ op = "_calculate_accuracy"
    /\ data = prompt_example
    /\ validate_financial_data(self, data).value =
         [has_revenue |-> TRUE, has_required_metrics |-> TRUE,
          confidence_sufficient |-> TRUE, values_consistent |-> TRUE,
          ebitda_consistent |-> TRUE]
    /\ result = [kind |-> "number", value |-> 9900]

\* C15: the accuracy analyze_document puts in its result, which is
\* _calculate_accuracy applied to the analysed dict, lies in [0, 100] for
\* every combination of present and absent metrics and every
\* confidence_score, values outside 0..100 included; a computation that
\* fails (a confidence_score that is no number) yields 0.
C15_AccuracyInRange ==
    op = "_calculate_accuracy" =>
      /\ result.kind = "number"
      /\ result.value \in 0..10000
      /\ ~IsNumber(confidence_of(data)) => result.value = 0

\* no check holds and the confidence is negative: the sum is -5 points
C15_Witness ==
    /\ op = "_calculate_accuracy"
    /\ confidence_of(data) = Num(-50)
    /\ validate_financial_data(self, data).value =
         [has_revenue |-> FALSE, has_required_metrics |-> FALSE,
          confidence_sufficient |-> FALSE, values_consistent |-> FALSE,
          ebitda_consistent |-> FALSE]
    /\ result = [kind |-> "number", value |-> 0]

----------------------------------------------------------------------------
(* Claims about the analysis pipeline *)

\* C16: no exception crosses the public boundary of the pipeline. Whatever
\* the collaborators do (no text extracted, the extraction or the LLM call
\* raises, the response is no JSON, required keys are missing, the
\* enhancement fails), process_and_analyze returns an AnalysisResult and
\* analyze_document returns a dict; a failure has success = false, carries
\* the error message and holds no partial metrics.
C16_NoExceptionCrossesBoundary ==
    /\ op = "process_and_analyze" =>
         /\ result.kind = "AnalysisResult"
         /\ ( \/ data.text.kind = "raise"
              \/ data.text.value = ""
              \/ data.groq.kind # "json"
              \/ ~({"metrics", "calculated_metrics", "analysis"}
                     \subseteq DOMAIN data.groq.value)
              \/ Raised(_enhance_analysis(data.groq.value)) )
              => ~result.value.success
         /\ data.text.kind = "raise" =>
              result.value.error = Str(data.text.message)
         /\ (data.text.kind = "text" /\ data.text.value = "") =>
              result.value.error =
                Str("Could not extract text from the document")
         /\ ~result.value.success =>
              /\ result.value.error.t = "str"
              /\ result.value.metrics = EmptyDict
              /\ result.value.calculated_metrics = EmptyDict
              /\ result.value.analysis = EmptyDict
              /\ result.value.currency_info = EmptyDict
    /\ op = "analyze_document" =>
         /\ result.kind # "raise"
         /\ pc = "done" =>
              /\ result.kind = "dict"
              /\ data.doc_result.kind = "raise" => ~result.value.success
              /\ ~result.value.success =>
                   /\ DOMAIN result.value = {"error", "success"}
                   /\ result.value.error.t = "str"

\* the response echoes the format lines of the prompt and the enhancement
\* fails on their arithmetic
C16_Witness ==
    /\ op = "process_and_analyze"
    /\ data.groq.kind = "json"
    /\ {"metrics", "calculated_metrics", "analysis"}
          \subseteq DOMAIN data.groq.value
    /\ data.groq.value["metrics"] = TemplateMetrics
    /\ Raised(_enhance_analysis(data.groq.value))
    /\ result = failed(Str("TypeError"))

\* C17: when every attempt of analyze_with_llm fails (the request raises,
\* the response cannot be parsed, or the result does not validate),
\* analyze_document delivers a terminal failure (success = false), not a
\* successful result built from default values.
C17_ExhaustedAttemptsFail ==
    ( /\ op = "analyze_document"
      /\ pc = "done"
      /\ retry_count = self.validation_rules.retry_attempts )
      => ~result.value.success

\* C18: analyze_with_llm terminates after at most retry_attempts (3) LLM
\* requests, makes no further request once an attempt produced a validated
\* result, which it returns, and waits retry_delay exactly once between two
\* consecutive attempts and never after the last one.
C18_BoundedRetriesWithDelayBetween ==
    /\ [](op = "analyze_document" =>
            /\ requests <= self.validation_rules.retry_attempts
            /\ (pc \in {"returned", "done"} /\ requests > 0) =>
                 /\ sleeps = self.validation_rules.retry_delay * (requests - 1)
                 /\ retry_count < requests =>
                      _validate_llm_result(data.results)
            /\ pc = "sleep" =>
                 sleeps = self.validation_rules.retry_delay * (requests - 1))
    /\ [][ /\ requests' # requests =>
                /\ requests' = requests + 1
                /\ data.results = None
           /\ sleeps' # sleeps =>
                /\ sleeps' = sleeps + self.validation_rules.retry_delay
                /\ requests' = requests
                /\ 0 < requests
                /\ pc' = "while"
                /\ retry_count' < self.validation_rules.retry_attempts
         ]_vars
    /\ (pc = "while") ~> (pc = "returned")

\* two attempts failed, each followed by one delay, and the third produced
\* the validated result
C18_Witness ==
    /\ op = "analyze_document"
    /\ pc = "returned"
    /\ requests = 3
    /\ retry_count = 2
    /\ sleeps = 2
    /\ _validate_llm_result(data.results)

\* C19: in the assembled result each margin (ebitda_margin,
\* net_profit_margin, operating_margin) equals 100 * metric / revenue
\* whenever revenue and the numerator metric are both present, a numerator
\* of 0 included, and is null in every other case, whatever margin the
\* upstream response supplied.
C19_MarginsComputedOrNull ==
    ( /\ op = "process_and_analyze"
      /\ result.value.success
      /\ result.value.calculated_metrics # None ) =>
      LET metrics == result.value.metrics
          revenue == get(metrics, "revenue")
          numerator ==
              [ebitda_margin |-> "ebitda", net_profit_margin |-> "net_income",
               operating_margin |-> "ebit"]
      IN
      \A margin \in Margins :
         LET metric == get(metrics, numerator[margin])
             value == get(result.value.calculated_metrics, margin)
         IN
         /\ (revenue.t = "num" /\ revenue.n # 0 /\ metric.t = "num") =>
              value = [t |-> "ratio", num |-> 100 * metric.n,
                       den |-> revenue.n]
         /\ (revenue = None \/ metric = None) => value = None

\* C20: when no currency was determined for a document the currency code in
\* the result is null, never a default code: neither the empty LLM result,
\* nor _enhance_analysis, nor the /analyze response puts EUR, USD or
\* 'Unknown' in its place.
C20_NoDefaultCurrency ==
    /\ ( /\ op = "analyze_document"
         /\ pc = "done"
         /\ retry_count = self.validation_rules.retry_attempts
         /\ result.value.success ) =>
         result.value.data["currency"] = None
    /\ ( /\ op = "process_and_analyze"
         /\ result.value.success
         /\ result.value.calculated_metrics # None
         /\ get(result.value.analysis, "currency") = None ) =>
         /\ result.value.currency_info["code"] = None
         /\ formatted_response(result.value).metadata.currency = None

\* C21: _enhance_analysis calculates EBITDA as ebit + depreciation +
\* amortization only when the metrics do not already provide an ebitda
\* value; an ebitda value provided in the metrics is left unchanged.
C21_ProvidedEbitdaIsKept ==
    ( /\ op = "process_and_analyze"
      /\ result.value.success
      /\ get(data.groq.value["metrics"], "ebitda") # None ) =>
      get(result.value.metrics, "ebitda")
        = get(data.groq.value["metrics"], "ebitda")

\* C24: in validate_financial_data values_consistent = true implies
\* ebitda_consistent = true for every input: the reconciliation tests of
\* _check_value_consistency and _check_ebitda_consistency use the same
\* operands and the same 0.1% tolerance with complementary comparisons.
C24_ValuesConsistentImpliesEbitdaConsistent ==
    (op = "validate_financial_data" /\ result.kind = "dict") =>
      (result.value.values_consistent => result.value.ebitda_consistent)

\* C25: the units of the /analyze response metadata equal the units that
\* _enhance_analysis stored in the result's currency_info; 'thousands' or
\* 'millions' determined by the analysis is never replaced by 'actuals' at
\* the HTTP boundary.
C25_ResponseUnitsAreAnalysisUnits ==
    ( /\ op = "process_and_analyze"
      /\ result.value.success
      /\ result.value.calculated_metrics # None ) =>
      formatted_response(result.value).metadata.units
        = result.value.currency_info["units"]

\* C26: every result returned by analyze_with_llm, a validated LLM result
\* or the empty result after all attempts failed, contains the keys revenue,
\* ebit, net_income, currency, units and confidence_score, has units in
\* {millions, thousands, actuals} (case-insensitive), a string currency and
\* a numeric confidence_score with 0 <= confidence_score <= 100.
C26_ReturnedResultIsWellFormed ==
    ( /\ op = "analyze_document"
      /\ pc \in {"returned", "done"}
      /\ data.results # None ) =>
      LET r == data.results IN
      /\ {"revenue", "ebit", "net_income", "currency", "units",
          "confidence_score"} \subseteq DOMAIN r
      /\ r["units"].t = "str"
      /\ lower(r["units"].s) \in {"millions", "thousands", "actuals"}
      /\ r["currency"].t = "str"
      /\ r["confidence_score"].t = "num"
      /\ 0 <= r["confidence_score"].n
      /\ r["confidence_score"].n <= 100

\* the second attempt returned a result with capitalised units and the
\* highest confidence, whose missing metric keys were filled in
C26_Witness ==
    /\ op = "analyze_document"
    /\ pc = "returned"
    /\ requests = 2
    /\ data.results # None
    /\ data.results["units"] = Str("Millions")
    /\ data.results["confidence_score"] = Num(100)
    /\ data.results["ebit"] = None
    /\ data.results["revenue"] = Num(-1)

----------------------------------------------------------------------------
(***************************************************************************)
(* DocumentProcessor._convert_to_markdown and _format_table.               *)
(*                                                                         *)
(* A line of text is its leading/trailing blanks and its words; a word     *)
(* carries its characters and the counts the conversion takes of them:     *)
(* its length, its digits, and its digits and '.,' currency characters     *)
(* (marks).  A text is the sequence of lines that split on the newline     *)
(* yields, and a markdown line is a table row, a heading or a plain line.  *)
(***************************************************************************)

Word(s, len, digits, marks) == [s |-> s, len |-> len, digits |-> digits, marks |-> marks]

Line(pad, words) == [pad |-> pad, words |-> words]

\* line.strip()
strip(line) == [line EXCEPT !.pad = 0]

\* line.split()
split(line) == [i \in 1..Len(line.words) |-> line.words[i].s]

RECURSIVE Total(_, _)
Total(words, field) ==
    IF words = <<>> THEN 0
    ELSE Head(words)[field] + Total(Tail(words), field)

\* len(line): the pad, the words and one blank between two words
len(line) ==
    IF line.words = <<>> THEN line.pad
    ELSE line.pad + Total(line.words, "len") + Len(line.words) - 1

\* not line
is_empty(line) == len(line) = 0

\* line 49: more than three digits or characters of '.,' and the currencies
is_table_row(line) == Total(line.words, "marks") > 3

\* line 55: a short line that holds a digit
is_header(line) == len(line) < 50 /\ Total(line.words, "digits") > 0

\* '| ' + ' | '.join(cells) + ' |'
row(cells) == [md |-> "row", cells |-> cells]

\* f'### {line}'
heading(line) == [md |-> "heading", line |-> line]

\* the line as it is; '' is the plain empty line
plain(line) == [md |-> "text", line |-> line]

_format_table(table_lines) ==
    IF table_lines = <<>> THEN <<>>
    ELSE LET columns == Len(split(table_lines[1]))
             header == <<"Item">> \o [i \in 1..(columns - 1) |-> "Value"]
         IN  <<row(header), row([i \in 1..Len(header) |-> "---"])>>
               \o [i \in 1..Len(table_lines) |-> row(split(table_lines[i]))]

\* lines 39-44, 56-60, 63-67: the end of the current table, if the
\* conversion is in one; in_table is false afterwards either way
end_table(lines_so_far, table, inside) ==
    IF inside
    THEN [markdown_lines |-> IF table # <<>>
                             THEN lines_so_far \o _format_table(table)
                             ELSE lines_so_far,
          current_table  |-> <<>>,
          in_table       |-> FALSE]
    ELSE [markdown_lines |-> lines_so_far,
          current_table  |-> table,
          in_table       |-> FALSE]

remaining_table_dropped(lines_so_far, table) == lines_so_far

\* lines 70-72: a table that runs to the end of the text
remaining_table(lines_so_far, table) ==
    IF table # <<>> THEN lines_so_far \o _format_table(table)
    ELSE lines_so_far

\* '\n'.join(markdown_lines), as the lines that a split of it yields
join(lines_to_join) ==
    IF lines_to_join = <<>> THEN <<plain(Line(0, <<>>))>> ELSE lines_to_join

(* Inputs *)

\* the longest text, in lines
MaxLines == 4

SampleLines ==
    { Line(0, <<>>),
      Line(2, <<Word("Revenue", 7, 0, 0), Word("1,234", 5, 4, 5)>>),
      Line(0, <<Word("EBIT", 4, 0, 0), Word("5,678", 5, 4, 5),
                Word("9,012", 5, 4, 5)>>),
      Line(0, <<Word("Q3", 2, 1, 1), Word("results", 7, 0, 0)>>),
      Line(1, <<Word("Notes", 5, 0, 0)>>),
      Line(0, <<Word("see-the-accompanying-note-7-to-the-financial-statements", 55, 1, 1)>>) }

Texts == UNION {[1..n -> SampleLines] : n \in 1..MaxLines}

(* Actions *)

\* lines 31-34
ConvertToMarkdown(text) ==
    /\ op = "__init__"
    /\ pc = "idle"
    /\ op' = "_convert_to_markdown"
    /\ pc' = "for"
    /\ lines' = text
    /\ line_no' = 0
    /\ markdown_lines' = <<>>
    /\ current_table' = <<>>
    /\ in_table' = FALSE
    /\ UNCHANGED <<self, data, result, retry_count, requests, sleeps, uploads>>

\* lines 36-67: one iteration of the loop
ConvertLine ==
    /\ op = "_convert_to_markdown"
    /\ pc = "for"
    /\ line_no < Len(lines)
    /\ line_no' = line_no + 1
    /\ LET line == strip(lines[line_no + 1])
           ended == end_table(markdown_lines, current_table, in_table)
       IN
       IF is_empty(line)
       THEN /\ markdown_lines' = Append(ended.markdown_lines, plain(line))
            /\ current_table' = ended.current_table
            /\ in_table' = ended.in_table
       ELSE IF is_table_row(line)
       THEN /\ in_table' = TRUE
            /\ current_table' = Append(current_table, line)
            /\ markdown_lines' = markdown_lines
       ELSE /\ markdown_lines' =
                 Append(ended.markdown_lines,
                        IF is_header(line) THEN heading(line)
                        ELSE plain(line))
            /\ current_table' = ended.current_table
            /\ in_table' = ended.in_table
    /\ UNCHANGED <<self, op, data, result, run, lines, uploads>>

\* lines 69-74
ConvertReturn ==
    /\ op = "_convert_to_markdown"
    /\ pc = "for"
    /\ line_no = Len(lines)
    /\ markdown_lines' = remaining_table(markdown_lines, current_table)
    /\ result' = [kind |-> "str", value |-> join(remaining_table(markdown_lines, current_table))]
    /\ pc' = "done"
    /\ UNCHANGED <<self, op, data, retry_count, requests, sleeps, lines, line_no, current_table, in_table, uploads>>

(* One conversion of a text, line by line *)

InitDocProcessor ==
    /\ self = DocProcessor
    /\ op = "__init__"
    /\ data = EmptyDict
    /\ result = ReturnNone
    /\ NoRun
    /\ NoConversion
    /\ NoUpload

NextMarkdown ==
    \/ (op = "__init__" /\ \E text \in Texts : ConvertToMarkdown(text))
    \/ ConvertLine
    \/ ConvertReturn

SpecMarkdown == InitDocProcessor /\ [][NextMarkdown]_vars

\* the markdown line of a line of the text, were each line emitted at once
image(line) ==
    IF is_empty(strip(line)) THEN plain(strip(line))
    ELSE IF is_table_row(strip(line)) THEN row(split(strip(line)))
    ELSE IF is_header(strip(line)) THEN heading(strip(line))
    ELSE plain(strip(line))

\* the two lines that _format_table puts in front of a table
is_table_head(m) == m.md = "row" /\ m.cells[1] \in {"Item", "---"}

\* the markdown lines without the heads of the tables
emitted == SelectSeq(markdown_lines, LAMBDA m : ~is_table_head(m))

\* the rows of the table that is still being read
buffered == [i \in 1..Len(current_table) |-> row(split(current_table[i]))]

\* C27: at every step of the line loop of _convert_to_markdown a non-empty
\* current_table implies in_table, and the markdown lines emitted so far
\* followed by the buffered rows are the lines read so far, one markdown
\* line each and in input order: every table row is emitted exactly once,
\* before any later line, and a table that runs to the end of the text is
\* emitted whole by the time the conversion returns.
C27_TableRowsEmittedOnceInOrder ==
    /\ (op = "_convert_to_markdown" /\ pc = "for") =>
         /\ current_table # <<>> => in_table
         /\ emitted \o buffered = [i \in 1..line_no |-> image(lines[i])]
    /\ (op = "_convert_to_markdown" /\ pc = "done") =>
         /\ emitted = [i \in 1..Len(lines) |-> image(lines[i])]
         /\ result = [kind |-> "str", value |-> markdown_lines]

\* a returned conversion of a text with a table, a plain line, and a table
\* of two rows that runs to the end of the text
C27_Witness ==
    /\ op = "_convert_to_markdown"
    /\ pc = "done"
    /\ Len(lines) = 4
    /\ is_table_row(lines[1])
    /\ ~is_empty(lines[2]) /\ ~is_table_row(lines[2])
    /\ is_table_row(lines[3])
    /\ is_table_row(lines[4])
    /\ lines[3] # lines[4]
    /\ Len(markdown_lines) = 8

----------------------------------------------------------------------------
(***************************************************************************)
(* src/flask_app.py: the /analyze route.                                   *)
(*                                                                         *)
(* The server handles requests in parallel, so the steps of two handlers   *)
(* interleave.  temp_folder maps each path that exists in app.temp_folder  *)
(* to the request whose upload it holds; a path is the pair of the         *)
(* timestamp and the secured filename that temp_{timestamp}_{filename}     *)
(* is built from.  The clock now counts seconds, the resolution of the     *)
(* '%Y%m%d_%H%M%S' timestamp.  Files are saved and removed without error.  *)
(***************************************************************************)

\* the seconds the clock can advance
MaxSeconds == 1

\* werkzeug's secure_filename: no directory part, blanks as underscores
secure_filename(filename) ==
    CASE filename = "../report.pdf" -> "report.pdf"
      [] filename = "q3 report.pdf" -> "q3_report.pdf"
      [] OTHER -> filename

\* what a request carries: no file part, or a file with its name and
\* whether it starts with the PDF signature
FormUploads ==
    {[file |-> FALSE]}
      \cup {[file |-> TRUE, filename |-> f, pdf |-> TRUE] :
              f \in {"", "report.pdf", "../report.pdf", "q3 report.pdf"}}
      \cup {[file |-> TRUE, filename |-> "report.pdf", pdf |-> FALSE]}

\* lines 82-92
is_rejected(upload) ==
    \/ ~upload.file
    \/ upload.filename = ""
    \/ ~upload.pdf

\* _pdf_to_text on a path that does not exist
NoSuchFile == [text |-> [kind |-> "raise", message |-> "No such file or directory"], groq |-> [kind |-> "unused"]]

\* what the text extraction and the Groq API deliver for an upload: a
\* complete answer, an answer with a null calculated_metrics, no answer
UploadOutcomes ==
    {[text |-> [kind |-> "text", value |-> "text"], groq |-> g] :
       g \in {[kind |-> "json",
                value |-> [metrics |-> [revenue |-> Num(1), ebit |-> Num(1)],
                           calculated_metrics |-> EmptyDict,
                           analysis |-> [currency |-> Str("SEK")]]],
               [kind |-> "json",
                value |-> [metrics |-> [ebit |-> Num(1)],
                           calculated_metrics |-> None,
                           analysis |-> EmptyDict]],
               [kind |-> "no_choices"]}}

\* lines 117-138 raise on a result one of whose dicts is null
response_raises(r) ==
    \/ r.metrics = None
    \/ r.calculated_metrics = None
    \/ r.currency_info = None
    \/ r.analysis = None

\* lines 109-140 and 150-152: the status of the response
status_of(r) ==
    IF ~r.success THEN 500
    ELSE IF response_raises(r) THEN 500
    ELSE 200

unlink_skipped(folder, path) == folder

\* lines 145-146: os.unlink(temp_path) if the path exists
unlink(folder, path) == [p \in DOMAIN folder \ {path} |-> folder[p]]

(* Actions *)

\* lines 82-100
Receive(r, upload) ==
    /\ handler[r].pc = "idle"
    /\ handler' =
         [handler EXCEPT ![r] =
            IF is_rejected(upload)
            THEN [@ EXCEPT !.pc = "returned", !.status = 400]
            ELSE [@ EXCEPT !.pc = "save",
                           !.filename = upload.filename,
                           !.temp_path = <<now, secure_filename(upload.filename)>>]]
    /\ UNCHANGED <<self, op, data, result, run, conversion, temp_folder, now>>

\* line 104: file.save(temp_path) creates the file or replaces it
Save(r) ==
    /\ handler[r].pc = "save"
    /\ temp_folder' =
         [p \in DOMAIN temp_folder \cup {handler[r].temp_path} |->
            IF p = handler[r].temp_path THEN r ELSE temp_folder[p]]
    /\ handler' = [handler EXCEPT ![r] = [@ EXCEPT !.pc = "analyze", !.saved = TRUE]]
    /\ UNCHANGED <<self, op, data, result, run, conversion, now>>

\* lines 109-140: process_and_analyze reads the file at temp_path
Analyze(r, outcome) ==
    /\ handler[r].pc = "analyze"
    /\ LET present == Has(temp_folder, handler[r].temp_path)
           delivered == IF present THEN outcome ELSE NoSuchFile
       IN
       handler' =
         [handler EXCEPT ![r] =
            [@ EXCEPT !.pc = "finally",
                      !.text = IF present
                               THEN temp_folder[handler[r].temp_path] ELSE 0,
                      !.status = status_of(process_and_analyze(delivered).value)]]
    /\ UNCHANGED <<self, op, data, result, run, conversion, temp_folder, now>>

\* lines 142-148
Cleanup(r) ==
    /\ handler[r].pc = "finally"
    /\ temp_folder' = unlink(temp_folder, handler[r].temp_path)
    /\ handler' = [handler EXCEPT ![r] = [@ EXCEPT !.pc = "returned"]]
    /\ UNCHANGED <<self, op, data, result, run, conversion, now>>

\* a second passes
Tick ==
    /\ now < MaxSeconds
    /\ now' = now + 1
    /\ UNCHANGED <<self, op, data, result, run, conversion, temp_folder, handler>>

(* Requests handled in parallel *)

NextAnalyzeRoute ==
    \/ \E r \in Requests :
         handler[r].pc = "idle" /\ \E upload \in FormUploads : Receive(r, upload)
    \/ \E r \in Requests : Save(r)
    \/ \E r \in Requests :
         handler[r].pc = "analyze" /\ \E outcome \in UploadOutcomes : Analyze(r, outcome)
    \/ \E r \in Requests : Cleanup(r)
    \/ Tick

SpecAnalyzeRoute == InitDocProcessor /\ [][NextAnalyzeRoute]_vars

\* C22: every /analyze request uses a temporary file path of its own: from
\* the moment a request has saved its upload until its analysis has read it,
\* the file at its path exists and holds its own upload, and the text it
\* analysed is that of its own upload; no other request has overwritten the
\* file or removed it in its cleanup.
C22_NoRequestTouchesAnothersFile ==
    \A r \in Requests :
      /\ handler[r].pc = "analyze" =>
           /\ Has(temp_folder, handler[r].temp_path)
           /\ temp_folder[handler[r].temp_path] = r
      /\ (handler[r].saved /\ handler[r].pc \in {"finally", "returned"}) =>
           handler[r].text = r

====
